---- MODULE Spec2Model ----
(***************************************************************************)
(* A model of python-photo-mosaic (src/mosaic.py): the traversal order     *)
(* coords_from_middle / shuffle_first_items, and create_mosaic with its    *)
(* configuration, tile pool, per-cell ranking and assignment loop.         *)
(*                                                                         *)
(* Numbers.  tile_ratio and y_bias are floats in the source; here they are *)
(* the floats num / den with den a power of two, written <<num, den>>.     *)
(* On these the double arithmetic of the source is exact for the small     *)
(* integers of the model, so that a sort key is the rational it stands for *)
(* and keys compare as their multiples by den do.  A ratio such as 2.4 is  *)
(* no such float (the double product 6 * 2.4 is below 14.4 while 2.4 + 12  *)
(* is not), and is not a value of the model.                               *)
(* Pixels.  An image is reduced to what the ranking depends on, its        *)
(* comparison sample: the grey levels of its four quadrants.  Sizes are    *)
(* those of the source image after the enlargement of lines 171-173.       *)
(***************************************************************************)
EXTENDS Integers, Sequences, FiniteSets, TLC

VARIABLES
    cf_pc,        \* coords_from_middle call: "call", "sorted", "returned"
    cf_args,      \* its arguments [x_count, y_count, y_bias, shuffle_first]
    cf_coords,    \* the local list coords
    pc,           \* position of create_mosaic
    args,         \* arguments of create_mosaic
    config,       \* the Config object, NoConfig before line 298 has run
    image_size,   \* source_image.image.size, <<w, h>>
    grid,         \* <<mosaic.x_tile_count, mosaic.y_tile_count>>
    tiles,        \* tile_box.tiles / tile_array: the sample of every pool entry
    tile_names,   \* tile_box.tile_names
    path_idx,     \* number of tile_paths already processed by the pool build
    coords,       \* the traversal order returned by coords_from_middle
    matches,      \* the list matches: one ranking per cell
    boxes,        \* the list boxes: one crop box per cell
    available,    \* the set available
    i,            \* loop index of the assignment loop
    j,            \* the index chosen in the current step
    raster,       \* mosaic.image: the tiles pasted, as a set of <<tile, box>>
    names,        \* build_instructions.names
    ibox,         \* build_instructions.boxes
    saved,        \* the target file: <<the raster last written by mosaic.save>>
    rendered,     \* the instructions file: <<the records show_instructions drew>>
    exit,         \* how the assignment loop ended
    error         \* the exception that left create_mosaic, "none" otherwise

cf_vars == <<cf_pc, cf_args, cf_coords>>
cm_vars == <<pc, args, config, image_size, grid, tiles, tile_names, path_idx,
             coords, matches, boxes, available, i, j, raster, names, ibox,
             saved, rendered, exit, error>>
vars == <<cf_pc, cf_args, cf_coords, pc, args, config, image_size, grid, tiles,
          tile_names, path_idx, coords, matches, boxes, available, i, j,
          raster, names, ibox, saved, rendered, exit, error>>

(***************************************************************************)
(* Bounds of the model.                                                    *)
(***************************************************************************)
\* largest x_count and y_count handed to coords_from_middle on its own
MaxCount == 3
\* largest number of entries a call of coords_from_middle on its own shuffles
MaxShuffle == 4

\* the denominators of the floats of the model
Exact == {1, 2, 4}

\* values of y_bias, as <<num, den>>: 1, 2, 2.5, 0.5, 0.75, 0, -1
Ratios ==
    {r \in {<<1, 1>>, <<2, 1>>, <<5, 2>>, <<1, 2>>, <<3, 4>>, <<0, 1>>,
            <<-1, 1>>} : r[2] \in Exact}

(***************************************************************************)
(* Python arithmetic and list primitives.                                  *)
(***************************************************************************)
Abs(n) == IF n < 0 THEN -n ELSE n

Min(a, b) == IF a < b THEN a ELSE b

Max(a, b) == IF a > b THEN a ELSE b

\* int(a / b) for b # 0: the quotient truncated toward zero
IntDiv(a, b) ==
    IF (a >= 0) = (b > 0) THEN Abs(a) \div Abs(b) ELSE -(Abs(a) \div Abs(b))

\* a % b for b # 0: the remainder has the sign of b
PyMod(a, b) == IF b > 0 THEN a % b ELSE -((-a) % (-b))

\* range(n) as a sequence; empty for n <= 0
Range(n) == [k \in 1..Max(n, 0) |-> k - 1]

\* the position a slice bound i denotes in a list of length n
SliceIndex(n, idx) == IF idx < 0 THEN Max(n + idx, 0) ELSE Min(idx, n)

\* lst[:i + 1]: the slice takes one entry too many
SliceToOneMore(lst, idx) ==
    SubSeq(lst, 1, Min(SliceIndex(Len(lst), idx) + 1, Len(lst)))

\* lst[:i]
SliceTo(lst, idx) == SubSeq(lst, 1, SliceIndex(Len(lst), idx))

\* lst[i + 1:]: the slice starts one entry late
SliceFromOneLate(lst, idx) ==
    SubSeq(lst, SliceIndex(Len(lst), idx) + 2, Len(lst))

\* lst[i:]
SliceFrom(lst, idx) == SubSeq(lst, SliceIndex(Len(lst), idx) + 1, Len(lst))

\* every order random.shuffle can leave a list in
Shuffles(lst) ==
    {[k \in 1..Len(lst) |-> lst[p[k]]] : p \in Permutations(1..Len(lst))}

\* f as an explicit table of its values, so that they are computed once
Table(f) == f @@ <<>>

\* a sort that puts an entry before the earlier entries of equal key
SortedPositionTiesReversed(lst, key, k) ==
    Cardinality({q \in 1..Len(lst) :
        \/ key[lst[q]] < key[lst[k]]
        \/ key[lst[q]] = key[lst[k]] /\ q >= k})

\* the position the entry at position k of lst has once lst is sorted by key:
\* after every entry of smaller key and every earlier entry of equal key
SortedPosition(lst, key, k) ==
    Cardinality({q \in 1..Len(lst) :
        \/ key[lst[q]] < key[lst[k]]
        \/ key[lst[q]] = key[lst[k]] /\ q <= k})

\* list.sort(key=...) and argsort: ascending by key, entries of equal key in
\* the order they had (list.sort is stable; numpy sorts arrays as short as a
\* tile pool of this model by insertion, which keeps that order too)
StableSort(lst, key) ==
    LET keys == Table(key)
        pos  == Table([k \in 1..Len(lst) |-> SortedPosition(lst, keys, k)])
    IN  [p \in 1..Len(lst) |-> lst[CHOOSE k \in 1..Len(lst) : pos[k] = p]]

(***************************************************************************)
(* shuffle_first_items and coords_from_middle.                             *)
(***************************************************************************)
\* the lists shuffle_first_items(lst, i) can return
shuffle_first_items(lst, n) ==
    IF n = 0 THEN {lst}
    ELSE {first_few \o SliceFrom(lst, n) : first_few \in Shuffles(SliceTo(lst, n))}

\* itertools.product(range(x_count), range(y_count)): x outer, y inner
Product(x_count, y_count) ==
    [k \in 1..(Max(x_count, 0) * Max(y_count, 0)) |->
        <<(k - 1) \div y_count, (k - 1) % y_count>>]

\* the sort key of line 273 multiplied by the denominator of y_bias, for a
\* y_bias with a denominator of Exact
SortKey(c, x_mid, y_mid, y_bias) ==
    Abs(c[1] - x_mid) * y_bias[1] + Abs(c[2] - y_mid) * y_bias[2]

\* lines 270-273: the cells sorted by distance from the middle
SortedCoords(x_count, y_count, y_bias) ==
    LET x_mid == IntDiv(x_count, 2)
        y_mid == IntDiv(y_count, 2)
        cells == Product(x_count, y_count)
        key   == [c \in {cells[k] : k \in 1..Len(cells)} |->
                     SortKey(c, x_mid, y_mid, y_bias)]
    IN  StableSort(cells, key)

\* the lists coords_from_middle can return
coords_from_middle(x_count, y_count, y_bias, shuffle_first) ==
    shuffle_first_items(SortedCoords(x_count, y_count, y_bias), shuffle_first)

(***************************************************************************)
(* A call of coords_from_middle on its own, in two steps: the sort of line *)
(* 273 and the shuffle of line 274.                                        *)
(***************************************************************************)
CfArgs ==
    {a \in [x_count : 0..MaxCount, y_count : 0..MaxCount, y_bias : Ratios,
            shuffle_first : (-MaxShuffle)..(MaxShuffle + 1)] :
        SliceIndex(a.x_count * a.y_count, a.shuffle_first) <= MaxShuffle}

CfInit ==
    /\ cf_pc = "call"
    /\ cf_args \in CfArgs
    /\ cf_coords = <<>>

CfSort ==
    /\ cf_pc = "call"
    /\ cf_coords' = SortedCoords(cf_args.x_count, cf_args.y_count, cf_args.y_bias)
    /\ cf_pc' = "sorted"
    /\ UNCHANGED cf_args
    /\ UNCHANGED cm_vars

CfShuffle ==
    /\ cf_pc = "sorted"
    /\ cf_coords' \in shuffle_first_items(cf_coords, cf_args.shuffle_first)
    /\ cf_pc' = "returned"
    /\ UNCHANGED cf_args
    /\ UNCHANGED cm_vars

(***************************************************************************)
(* create_mosaic: bounds and inputs.                                       *)
(***************************************************************************)
\* largest number of pixels (width * height) of the enlarged source image
MaxArea == 5
\* largest number of tile paths
MaxSources == 2
\* largest number of pixels of the source image in the runs checked for
\* what eventually happens
MaxFairArea == 3

\* values of tile_width
TileWidths == {-1, 0, 1, 2}

\* values of tile_ratio, as <<num, den>>: 1, 2, 0, -1
TileRatios == {<<1, 1>>, <<2, 1>>, <<0, 1>>, <<-1, 1>>}

\* values of shuffle_first handed to create_mosaic: a prefix of two cells,
\* whose shuffle also leaves the order that shuffle_first = 0 gives
MosaicShuffles == {2}

\* A comparison sample: the grey levels of the four quadrants of an image, in
\* the order top-left, top-right, bottom-right, bottom-left.
\* The tile files a path of tile_paths can name, each <<stem, image>>: the
\* stem of the path as its characters, and the sample of the image it holds.
\* IMG_0001.v2 and DSC_0001 are two files that line 112 gives one name.
TileFiles ==
    {<<<<"I", "M", "G", "_", "0", "0", "0", "1", ".", "v", "2">>, <<1, 0, 0, 0>>>>,
     <<<<"D", "S", "C", "_", "0", "0", "0", "1">>, <<0, 0, 0, 0>>>>}

BlockImages == {<<0, 0, 1, 0>>, <<1, 1, 0, 0>>}

\* sizes <<w, h>> of the enlarged source image (lines 171-173)
SourceSizes ==
    {s \in (1..MaxArea) \X (1..MaxArea) : s[1] * s[2] <= MaxArea}

CmArgs ==
    [tile_ratio : TileRatios, tile_width : TileWidths, reuse : BOOLEAN,
     rotate : BOOLEAN, shuffle_first : MosaicShuffles,
     tile_paths : 0..MaxSources, source_size : SourceSizes]

NoConfig == [tile_ratio |-> <<0, 1>>, tile_width |-> 0, rotate |-> FALSE,
             exists |-> FALSE]

\* the target file before the first save: no raster written
NotSaved == <<>>

\* the instructions file before show_instructions: nothing drawn
NotRendered == <<>>

NoIndex == -1

(***************************************************************************)
(* Config (lines 77-92).                                                   *)
(***************************************************************************)
\* Config.__init__: stores its arguments; nothing is checked
Config(tile_ratio, tile_width, rotate) ==
    [tile_ratio |-> tile_ratio, tile_width |-> tile_width, rotate |-> rotate,
     exists |-> TRUE]

\* whether evaluating the property tile_height divides by zero
TileHeightFails(c) == c.tile_ratio[1] = 0

\* Config.tile_height: int(tile_width / tile_ratio)
tile_height(c) == IntDiv(c.tile_width * c.tile_ratio[2], c.tile_ratio[1])

(***************************************************************************)
(* SourceImage (lines 164-183) and MosaicImage (lines 187-196).            *)
(***************************************************************************)
\* round(n / 2) as Python rounds: halves go to the even neighbour
RoundHalf(n) ==
    IF n % 2 = 0 THEN n \div 2
    ELSE IF (n \div 2) % 2 = 0 THEN n \div 2 ELSE (n \div 2) + 1

\* the extent left by crop((d, _, extent - d, _)) with d = (extent % tile) / 2
CroppedExtent(extent, tile) ==
    LET r == PyMod(extent, tile)
    IN  RoundHalf(2 * extent - r) - RoundHalf(r)

\* lines 174-180: the size of the source image after the crop
CroppedSize(size, c) ==
    LET w_rem == PyMod(size[1], c.tile_width)
        h_rem == PyMod(size[2], tile_height(c))
    IN  IF w_rem # 0 \/ h_rem # 0
        THEN <<CroppedExtent(size[1], c.tile_width),
               CroppedExtent(size[2], tile_height(c))>>
        ELSE size

\* lines 193-194
TileCounts(size, c) ==
    <<IntDiv(size[1], c.tile_width), IntDiv(size[2], tile_height(c))>>

(***************************************************************************)
(* TileBox (lines 99-141).                                                 *)
(***************************************************************************)
\* Image.rotate(90 * k): a quarter turn counter-clockwise moves every
\* quadrant to its counter-clockwise neighbour
Rotate(img, k) == [q \in 1..4 |-> img[((q - 1 + k) % 4) + 1]]

\* the entries __process_tile appends to self.tiles
ProcessedTiles(img, rotate) ==
    IF rotate THEN <<img, Rotate(img, 1), Rotate(img, 2), Rotate(img, 3)>>
    ELSE <<img>>

\* stem.split('.')[0]: the characters before the first dot
FirstSegment(stem) ==
    IF \E p \in 1..Len(stem) : stem[p] = "."
    THEN SubSeq(stem, 1, (CHOOSE p \in 1..Len(stem) :
                            /\ stem[p] = "."
                            /\ \A q \in 1..(p - 1) : stem[q] # ".") - 1)
    ELSE stem

\* line 112: tile_path.stem.split('.')[0][-4:]
TileName(stem) == SliceFrom(FirstSegment(stem), -4)

\* the entries __process_tile appends to self.tile_names: the name, and with
\* rotation the name followed by the quarter turn, here <<name, degrees>>
ProcessedNames(stem, rotate) ==
    LET name == TileName(stem)
    IN  IF rotate THEN <<<<name, 0>>, <<name, 90>>, <<name, 180>>, <<name, 270>>>>
        ELSE <<<<name, 0>>>>

\* line 138/140 for one tile: the squared differences summed over the sample
\* (the mean divides every entry by the same sample size)
match_result(tile, block) ==
    (tile[1] - block[1]) * (tile[1] - block[1])
    + (tile[2] - block[2]) * (tile[2] - block[2])
    + (tile[3] - block[3]) * (tile[3] - block[3])
    + (tile[4] - block[4]) * (tile[4] - block[4])

\* best_tile_block_match: the pool indices, 0-based, by ascending distance
best_tile_block_match(tile_array, block) ==
    LET match_results == [t \in 0..(Len(tile_array) - 1) |->
                             match_result(tile_array[t + 1], block)]
    IN  StableSort(Range(Len(tile_array)), match_results)

(***************************************************************************)
(* The assignment step (lines 346-361).                                    *)
(***************************************************************************)
\* line 330
BoxCrop(cell, c) ==
    <<cell[1] * c.tile_width, cell[2] * tile_height(c),
      (cell[1] + 1) * c.tile_width, (cell[2] + 1) * tile_height(c)>>

\* the loop stops while one tile is still available
ExhaustedEarly(avail) == Cardinality(avail) <= 1

\* line 346
Exhausted(avail) == avail = {}

\* whether the generator of line 352 yields anything
HasAvailable(m, avail) == \E p \in 1..Len(m) : m[p] \in avail

\* the scan takes the last available entry of the ranking, not the first
LastAvailable(m, avail) ==
    m[CHOOSE p \in 1..Len(m) :
        /\ m[p] \in avail
        /\ \A q \in (p + 1)..Len(m) : m[q] \notin avail]

\* line 352: next(j for j in m if j in available)
FirstAvailable(m, avail) ==
    m[CHOOSE p \in 1..Len(m) :
        /\ m[p] \in avail
        /\ \A q \in 1..(p - 1) : m[q] \notin avail]

\* only the chosen index is taken out, with rotation too
IndecesChosenOnly(t, rotate) == {t}

\* lines 353-356: the indices taken out of the availability set
Indeces(t, rotate) ==
    IF rotate THEN {IntDiv(t, 4) * 4 + k : k \in 0..3} ELSE {t}

\* the last entry of the ranking is taken, not the first
BottomRanked(m) == m[Len(m)]

\* line 361
TopRanked(m) == m[1]

\* the exceptions the except clause of line 373 catches
ExceptClause == {"KeyboardInterrupt"}

(***************************************************************************)
(* create_mosaic (lines 278-380), one action per step.                     *)
(***************************************************************************)
CmInit ==
    /\ pc = "Config"
    /\ args \in CmArgs
    /\ config = NoConfig
    /\ image_size = <<0, 0>>
    /\ grid = <<0, 0>>
    /\ tiles = <<>>
    /\ tile_names = <<>>
    /\ path_idx = 0
    /\ coords = <<>>
    /\ matches = <<>>
    /\ boxes = <<>>
    /\ available = {}
    /\ i = 0
    /\ j = NoIndex
    /\ raster = {}
    /\ names = <<>>
    /\ ibox = <<>>
    /\ saved = NotSaved
    /\ rendered = NotRendered
    /\ exit = "none"
    /\ error = "none"

\* an exception raised outside the try statement leaves create_mosaic
Raise(exc) ==
    /\ pc' = "Raised"
    /\ error' = exc

\* lines 298-305
MakeConfig ==
    /\ pc = "Config"
    /\ config' = Config(args.tile_ratio, args.tile_width, args.rotate)
    /\ pc' = "SourceResize"
    /\ UNCHANGED cf_vars
    /\ UNCHANGED <<args, image_size, grid, tiles, tile_names, path_idx, coords,
                   matches, boxes, available, i, j, raster, names, ibox, saved,
                   rendered, exit, error>>

\* lines 169-173: the source image is opened and enlarged
SourceResize ==
    /\ pc = "SourceResize"
    /\ image_size' = args.source_size
    /\ pc' = "SourceCrop"
    /\ UNCHANGED cf_vars
    /\ UNCHANGED <<args, config, grid, tiles, tile_names, path_idx, coords,
                   matches, boxes, available, i, j, raster, names, ibox, saved,
                   rendered, exit, error>>

\* lines 174-183: the crop to a whole number of tiles
SourceCrop ==
    /\ pc = "SourceCrop"
    /\ IF \/ config.tile_width = 0
          \/ TileHeightFails(config)
          \/ tile_height(config) = 0
       THEN /\ Raise("ZeroDivisionError")
            /\ UNCHANGED image_size
       ELSE /\ image_size' = CroppedSize(image_size, config)
            /\ pc' = "MosaicImage"
            /\ UNCHANGED error
    /\ UNCHANGED cf_vars
    /\ UNCHANGED <<args, config, grid, tiles, tile_names, path_idx, coords,
                   matches, boxes, available, i, j, raster, names, ibox, saved,
                   rendered, exit>>

\* line 311: MosaicImage.__init__
MosaicImage ==
    /\ pc = "MosaicImage"
    /\ grid' = TileCounts(image_size, config)
    /\ pc' = "TileBox"
    /\ UNCHANGED cf_vars
    /\ UNCHANGED <<args, config, image_size, tiles, tile_names, path_idx,
                   coords, matches, boxes, available, i, j, raster, names,
                   ibox, saved, rendered, exit, error>>

\* lines 105-119, once per tile path: resize rejects a size below 1
ProcessTile ==
    /\ pc = "TileBox"
    /\ path_idx < args.tile_paths
    /\ IF config.tile_width < 1 \/ tile_height(config) < 1
       THEN /\ Raise("ValueError")
            /\ UNCHANGED <<tiles, tile_names, path_idx>>
       ELSE /\ \E file \in TileFiles :
                   /\ tiles' = tiles \o ProcessedTiles(file[2], config.rotate)
                   /\ tile_names' =
                         tile_names \o ProcessedNames(file[1], config.rotate)
            /\ path_idx' = path_idx + 1
            /\ UNCHANGED <<pc, error>>
    /\ UNCHANGED cf_vars
    /\ UNCHANGED <<args, config, image_size, grid, coords, matches, boxes,
                   available, i, j, raster, names, ibox, saved, rendered, exit>>

\* lines 127-133: the comparison array is built; an empty list of paths
\* gives an empty array and no error
PrepareTiles ==
    /\ pc = "TileBox"
    /\ path_idx = args.tile_paths
    /\ pc' = "Coords"
    /\ UNCHANGED cf_vars
    /\ UNCHANGED <<args, config, image_size, grid, tiles, tile_names, path_idx,
                   coords, matches, boxes, available, i, j, raster, names,
                   ibox, saved, rendered, exit, error>>

\* line 328: the traversal order
Traversal ==
    /\ pc = "Coords"
    /\ coords' \in coords_from_middle(grid[1], grid[2], config.tile_ratio,
                                      args.shuffle_first)
    /\ pc' = "Rank"
    /\ UNCHANGED cf_vars
    /\ UNCHANGED <<args, config, image_size, grid, tiles, tile_names, path_idx,
                   matches, boxes, available, i, j, raster, names, ibox, saved,
                   rendered, exit, error>>

\* lines 328-337, once per cell.  With an empty pool the subtraction of line
\* 138/140 broadcasts a (0,) array against the block: numpy raises ValueError,
\* except for a one-column greyscale block, where the result is the ranking [0].
Rank ==
    /\ pc = "Rank"
    /\ Len(matches) < Len(coords)
    /\ LET cell == coords[Len(matches) + 1]
       IN  \/ /\ tiles # <<>>
              /\ \E block \in BlockImages :
                    matches' = Append(matches, best_tile_block_match(tiles, block))
              /\ boxes' = Append(boxes, BoxCrop(cell, config))
              /\ UNCHANGED <<pc, error>>
           \/ /\ tiles = <<>>
              /\ matches' = Append(matches, <<0>>)
              /\ boxes' = Append(boxes, BoxCrop(cell, config))
              /\ UNCHANGED <<pc, error>>
           \/ /\ tiles = <<>>
              /\ Raise("ValueError")
              /\ UNCHANGED <<matches, boxes>>
    /\ UNCHANGED cf_vars
    /\ UNCHANGED <<args, config, image_size, grid, tiles, tile_names, path_idx,
                   coords, available, i, j, raster, names, ibox, saved,
                   rendered, exit>>

\* line 341, after the last cell was ranked
MakeAvailable ==
    /\ pc = "Rank"
    /\ Len(matches) = Len(coords)
    /\ available' = 0..(Len(tiles) - 1)
    /\ i' = 0
    /\ pc' = "LoopHead"
    /\ UNCHANGED cf_vars
    /\ UNCHANGED <<args, config, image_size, grid, tiles, tile_names, path_idx,
                   coords, matches, boxes, j, raster, names, ibox, saved,
                   rendered, exit, error>>

\* line 344: the loop is over when every ranking was visited
LoopEnd ==
    /\ pc = "LoopHead"
    /\ i = Len(matches)
    /\ exit' = "completed"
    /\ pc' = "Finally"
    /\ UNCHANGED cf_vars
    /\ UNCHANGED <<args, config, image_size, grid, tiles, tile_names, path_idx,
                   coords, matches, boxes, available, i, j, raster, names,
                   ibox, saved, rendered, error>>

\* lines 344-346: the next cell, and the test of the availability set
LoopHead ==
    /\ pc = "LoopHead"
    /\ i < Len(matches)
    /\ pc' = IF Exhausted(available) THEN "RanOut" ELSE "Choose"
    /\ UNCHANGED cf_vars
    /\ UNCHANGED <<args, config, image_size, grid, tiles, tile_names, path_idx,
                   coords, matches, boxes, available, i, j, raster, names,
                   ibox, saved, rendered, exit, error>>

\* MosaicImage.save (lines 205-206): Image.save cannot encode an image of no
\* width or no height and raises
SaveFails == image_size[1] < 1 \/ image_size[2] < 1

\* what Image.save raises then: which one depends on the format of the target
SaveErrors == {"SystemError", "ValueError"}

\* lines 347-348: the save of the loop that ran out of tiles
RanOut ==
    /\ pc = "RanOut"
    /\ IF SaveFails
       THEN /\ \E exc \in SaveErrors : error' = exc
            /\ exit' = "failed"
            /\ pc' = "Except"
            /\ UNCHANGED saved
       ELSE /\ saved' = <<raster>>
            /\ pc' = "Break"
            /\ UNCHANGED <<exit, error>>
    /\ UNCHANGED cf_vars
    /\ UNCHANGED <<args, config, image_size, grid, tiles, tile_names, path_idx,
                   coords, matches, boxes, available, i, j, raster, names,
                   ibox, rendered>>

\* line 349: the loop is left
Break ==
    /\ pc = "Break"
    /\ exit' = "exhausted"
    /\ pc' = "Finally"
    /\ UNCHANGED cf_vars
    /\ UNCHANGED <<args, config, image_size, grid, tiles, tile_names, path_idx,
                   coords, matches, boxes, available, i, j, raster, names,
                   ibox, saved, rendered, error>>

\* lines 351-352 and 361: j is bound to the tile of cell i
Choose ==
    /\ pc = "Choose"
    /\ LET m == matches[i + 1]
       IN  IF ~args.reuse
           THEN IF HasAvailable(m, available)
                THEN /\ j' = FirstAvailable(m, available)
                     /\ pc' = "Remove"
                     /\ UNCHANGED <<error, exit>>
                ELSE /\ error' = "StopIteration"
                     /\ exit' = "failed"
                     /\ pc' = "Except"
                     /\ UNCHANGED j
           ELSE /\ j' = TopRanked(m)
                /\ pc' = "Paste"
                /\ UNCHANGED <<error, exit>>
    /\ UNCHANGED cf_vars
    /\ UNCHANGED <<args, config, image_size, grid, tiles, tile_names, path_idx,
                   coords, matches, boxes, available, i, raster, names, ibox,
                   saved, rendered>>

\* lines 353-359: available is rebound to the set without the indices of j
Remove ==
    /\ pc = "Remove"
    /\ available' = available \ Indeces(j, config.rotate)
    /\ pc' = "Paste"
    /\ UNCHANGED cf_vars
    /\ UNCHANGED <<args, config, image_size, grid, tiles, tile_names, path_idx,
                   coords, matches, boxes, i, j, raster, names, ibox, saved,
                   rendered, exit, error>>

\* lines 362-366: the tile is pasted at the cell's box
Paste ==
    /\ pc = "Paste"
    /\ raster' = {r \in raster : r[2] # boxes[i + 1]} \cup {<<j, boxes[i + 1]>>}
    /\ pc' = "AddTileName"
    /\ UNCHANGED cf_vars
    /\ UNCHANGED <<args, config, image_size, grid, tiles, tile_names, path_idx,
                   coords, matches, boxes, available, i, j, names, ibox, saved,
                   rendered, exit, error>>

\* line 367 calls BuildInstructions.add_tile; line 243: the name is appended
AddTileName ==
    /\ pc = "AddTileName"
    /\ names' = Append(names, tile_names[j + 1])
    /\ pc' = "AddTileBox"
    /\ UNCHANGED cf_vars
    /\ UNCHANGED <<args, config, image_size, grid, tiles, tile_names, path_idx,
                   coords, matches, boxes, available, i, j, raster, ibox,
                   saved, rendered, exit, error>>

\* line 244: the box is appended, and the body of the loop is over
AddTileBox ==
    /\ pc = "AddTileBox"
    /\ ibox' = Append(ibox, boxes[i + 1])
    /\ i' = i + 1
    /\ pc' = "LoopHead"
    /\ UNCHANGED cf_vars
    /\ UNCHANGED <<args, config, image_size, grid, tiles, tile_names, path_idx,
                   coords, matches, boxes, available, j, raster, names, saved,
                   rendered, exit, error>>

\* the positions inside the try block of lines 343-371
InLoop ==
    pc \in {"LoopHead", "RanOut", "Break", "Choose", "Remove", "Paste",
            "AddTileName", "AddTileBox"}

\* a KeyboardInterrupt is raised inside the loop, between any two of its steps
Interrupt ==
    /\ InLoop
    /\ error' = "KeyboardInterrupt"
    /\ exit' = "interrupted"
    /\ pc' = "Except"
    /\ UNCHANGED cf_vars
    /\ UNCHANGED <<args, config, image_size, grid, tiles, tile_names, path_idx,
                   coords, matches, boxes, available, i, j, raster, names,
                   ibox, saved, rendered>>

\* lines 373-374: the handler swallows what the except clause names
Except ==
    /\ pc = "Except"
    /\ error' = IF error \in ExceptClause THEN "none" ELSE error
    /\ pc' = "Finally"
    /\ UNCHANGED cf_vars
    /\ UNCHANGED <<args, config, image_size, grid, tiles, tile_names, path_idx,
                   coords, matches, boxes, available, i, j, raster, names,
                   ibox, saved, rendered, exit>>

\* lines 376-377: the finally block saves, then an uncaught exception goes
\* on; a save that raises leaves create_mosaic with its own exception
Finally ==
    /\ pc = "Finally"
    /\ IF SaveFails
       THEN /\ \E exc \in SaveErrors : Raise(exc)
            /\ UNCHANGED saved
       ELSE /\ saved' = <<raster>>
            /\ pc' = IF error = "none" THEN "Save" ELSE "Raised"
            /\ UNCHANGED error
    /\ UNCHANGED cf_vars
    /\ UNCHANGED <<args, config, image_size, grid, tiles, tile_names, path_idx,
                   coords, matches, boxes, available, i, j, raster, names,
                   ibox, rendered, exit>>

\* line 379
Save ==
    /\ pc = "Save"
    /\ IF SaveFails
       THEN /\ \E exc \in SaveErrors : Raise(exc)
            /\ UNCHANGED saved
       ELSE /\ saved' = <<raster>>
            /\ pc' = "Show"
            /\ UNCHANGED error
    /\ UNCHANGED cf_vars
    /\ UNCHANGED <<args, config, image_size, grid, tiles, tile_names, path_idx,
                   coords, matches, boxes, available, i, j, raster, names,
                   ibox, rendered, exit>>

\* line 380: show_instructions draws every box, and in it the name at the
\* box's position in names (lines 219-228)
ShowInstructions ==
    /\ pc = "Show"
    /\ rendered' = <<<<[k \in 1..Len(ibox) |-> names[k]], ibox>>>>
    /\ pc' = "Done"
    /\ UNCHANGED cf_vars
    /\ UNCHANGED <<args, config, image_size, grid, tiles, tile_names, path_idx,
                   coords, matches, boxes, available, i, j, raster, names,
                   ibox, saved, exit, error>>

(***************************************************************************)
(* Specifications.                                                         *)
(***************************************************************************)
CfIdle ==
    /\ cf_pc = "idle"
    /\ cf_args = [x_count |-> 0, y_count |-> 0, y_bias |-> <<1, 1>>,
                  shuffle_first |-> 0]
    /\ cf_coords = <<>>

CmIdle ==
    /\ pc = "idle"
    /\ args = [tile_ratio |-> <<1, 1>>, tile_width |-> 1, reuse |-> TRUE,
               rotate |-> FALSE, shuffle_first |-> 0, tile_paths |-> 0,
               source_size |-> <<1, 1>>]
    /\ config = NoConfig
    /\ image_size = <<0, 0>>
    /\ grid = <<0, 0>>
    /\ tiles = <<>>
    /\ tile_names = <<>>
    /\ path_idx = 0
    /\ coords = <<>>
    /\ matches = <<>>
    /\ boxes = <<>>
    /\ available = {}
    /\ i = 0
    /\ j = NoIndex
    /\ raster = {}
    /\ names = <<>>
    /\ ibox = <<>>
    /\ saved = NotSaved
    /\ rendered = NotRendered
    /\ exit = "none"
    /\ error = "none"

\* the steps create_mosaic takes on its own
Continue ==
    \/ MakeConfig
    \/ SourceResize
    \/ SourceCrop
    \/ MosaicImage
    \/ ProcessTile
    \/ PrepareTiles
    \/ Traversal
    \/ Rank
    \/ MakeAvailable
    \/ LoopEnd
    \/ LoopHead
    \/ RanOut
    \/ Break
    \/ Choose
    \/ Remove
    \/ Paste
    \/ AddTileName
    \/ AddTileBox
    \/ Except
    \/ Finally
    \/ Save
    \/ ShowInstructions

Init == CmInit /\ CfIdle

Next == Continue \/ Interrupt

Spec == Init /\ [][Next]_vars

\* what runs once the loop is left: the handler, the finally block and the
\* two statements after the try statement
AfterLoop == Except \/ Finally \/ Save \/ ShowInstructions

\* the runs followed to their end: those on a source of at most MaxFairArea
\* pixels
FairInit ==
    /\ Init
    /\ args.source_size[1] * args.source_size[2] <= MaxFairArea

\* create_mosaic is sequential code: once the loop is left, what follows runs
FairSpec == FairInit /\ [][Next]_vars /\ WF_vars(AfterLoop)

CoordsInit == CfInit /\ CmIdle

CoordsNext == CfSort \/ CfShuffle

CoordsSpec == CoordsInit /\ [][CoordsNext]_vars

(***************************************************************************)
(* Vocabulary of the properties.                                           *)
(***************************************************************************)
\* the rotation group of a pool index
GroupOf(t) == t \div 4

\* the number of pool entries
PoolSize == Len(tiles)

\* The pool indices the names appended so far reference.  The k-th name
\* is that of the tile pasted on the box of the k-th cell, and the raster
\* holds one tile per box.
RecordIndices ==
    [k \in 1..Len(names) |-> CHOOSE t \in 0..(PoolSize - 1) : <<t, boxes[k]>> \in raster]

\* the cells of a grid
Rectangle(x_count, y_count) == (0..(x_count - 1)) \X (0..(y_count - 1))

\* the number of positions of seq that hold c
Occurrences(seq, c) == Cardinality({p \in 1..Len(seq) : seq[p] = c})

\* the records appended so far: the boxes, each with its name
Records == <<SubSeq(names, 1, Len(ibox)), ibox>>

\* the assignment loop has ended and its results are written out
Flushed ==
    /\ pc = "Done"
    /\ error = "none"
    /\ saved = <<raster>>
    /\ rendered = <<Records>>

(***************************************************************************)
(* C1.  With reuse disabled, at every point of a run no two records        *)
(* reference tiles of the same rotation group when rotation is enabled,    *)
(* and no two records reference the same tile index when it is disabled.   *)
(***************************************************************************)
C1_NoTileTwice ==
    ~args.reuse =>
        /\ \A k \in 1..Len(names) :
              /\ \E t \in 0..(PoolSize - 1) : <<t, boxes[k]>> \in raster
              /\ names[k] = tile_names[RecordIndices[k] + 1]
        /\ \A a, b \in 1..Len(names) :
              a # b =>
                  IF config.rotate
                  THEN GroupOf(RecordIndices[a]) # GroupOf(RecordIndices[b])
                  ELSE RecordIndices[a] # RecordIndices[b]

\* two records of one run that carry the same name and reference two
\* tiles, those of two files of one name
C1_Witness ==
    /\ ~args.reuse
    /\ ~config.rotate
    /\ Len(names) = 2
    /\ Len(ibox) = 2
    /\ names[1] = names[2]
    /\ RecordIndices[1] # RecordIndices[2]
    /\ tiles[RecordIndices[1] + 1] # tiles[RecordIndices[2] + 1]

(***************************************************************************)
(* C2.  With reuse disabled, an uncancelled loop and a pool of K tiles, K  *)
(* smaller than the number of cells: exactly K cells (K/4 with rotation)   *)
(* receive a tile, they are the first cells of the traversal order, and    *)
(* every other cell has no record and nothing pasted on it.                *)
(***************************************************************************)
C2_Exhaustion ==
    (/\ pc = "Done"
     /\ ~args.reuse
     /\ exit \in {"completed", "exhausted"}
     /\ PoolSize < Len(coords))
    => LET filled == IF config.rotate THEN PoolSize \div 4 ELSE PoolSize
       IN  /\ Len(names) = filled
           /\ ibox = SubSeq(boxes, 1, filled)
           /\ ibox = [k \in 1..filled |-> BoxCrop(coords[k], config)]
           /\ {r[2] : r \in raster} = {boxes[k] : k \in 1..filled}
           /\ \A k \in (filled + 1)..Len(coords) :
                 /\ \A q \in 1..Len(ibox) : ibox[q] # boxes[k]
                 /\ \A r \in raster : r[2] # boxes[k]

\* a rotated pool of one group on a grid of five cells: one cell is filled
C2_Witness ==
    /\ pc = "Done"
    /\ ~args.reuse
    /\ config.rotate
    /\ exit = "exhausted"
    /\ PoolSize = 4
    /\ Len(coords) = 5
    /\ Len(names) = 1

(***************************************************************************)
(* C3.  With reuse enabled every record's tile is the first entry of its   *)
(* cell's ranking, the availability set stays the whole pool, and with a   *)
(* non-empty pool the loop never runs out: every cell it visits receives a *)
(* record, and all cells do when it completes.                             *)
(***************************************************************************)
C3_ReuseTopRanked ==
    args.reuse =>
        /\ \A k \in 1..Len(names) : names[k] = tile_names[matches[k][1] + 1]
        /\ \A k \in 1..Len(ibox) : ibox[k] = boxes[k]
        /\ \A r \in raster : \E k \in 1..Len(boxes) :
              r = <<matches[k][1], boxes[k]>>
        /\ (pc \notin {"Config", "SourceResize", "SourceCrop", "MosaicImage",
                       "TileBox", "Coords", "Rank", "Raised"})
              => available = 0..(PoolSize - 1)
        /\ PoolSize > 0 =>
              /\ exit # "exhausted"
              /\ pc = "LoopHead" => (Len(names) = i /\ Len(ibox) = i)
              /\ exit = "completed" =>
                    /\ Len(names) = Len(coords)
                    /\ Len(ibox) = Len(coords)
                    /\ Len(coords) = Cardinality(Rectangle(grid[1], grid[2]))

\* the same tile given to two cells, the second time although already used
C3_Witness ==
    /\ args.reuse
    /\ pc = "Done"
    /\ exit = "completed"
    /\ PoolSize >= 2
    /\ Len(names) >= 3
    /\ RecordIndices[1] = RecordIndices[2]
    /\ RecordIndices[3] # RecordIndices[1]

(***************************************************************************)
(* C4.  However the assignment loop ends (all cells visited, pool          *)
(* exhausted, or a KeyboardInterrupt anywhere inside it), create_mosaic    *)
(* goes on to save the raster with every tile pasted so far and to render  *)
(* every record appended so far, a record being a box with its name; the   *)
(* interrupt does not leave create_mosaic and nothing pasted or appended   *)
(* is lost on the way.  An interrupt inside add_tile leaves a name without *)
(* its box: every box still has its name, in the same position.            *)
(* In particular no exception leaves create_mosaic once the loop has       *)
(* ended.  The run of a source cropped to no width or no height refutes    *)
(* it: the loop ends at once and the save of the finally block raises.     *)
(***************************************************************************)
C4_PartialOutputFlushed ==
    /\ [](exit # "none" => pc # "Raised")
    /\ [](exit # "none" => <>Flushed)
    /\ [][exit' # "none" => (names' = names /\ ibox' = ibox /\ raster' = raster)]_vars
    /\ [](pc # "Raised" \/ error # "KeyboardInterrupt")
    /\ [](Len(names) \in {Len(ibox), Len(ibox) + 1})

(***************************************************************************)
(* C5.  coords_from_middle returns x_count * y_count pairs in which every  *)
(* cell of the rectangle occurs exactly once, for every y_bias and every   *)
(* shuffle_first.                                                          *)
(***************************************************************************)
C5_EveryCellOnce ==
    cf_pc = "returned" =>
        /\ Len(cf_coords) = cf_args.x_count * cf_args.y_count
        /\ \A c \in Rectangle(cf_args.x_count, cf_args.y_count) :
              Occurrences(cf_coords, c) = 1
        /\ \A p \in 1..Len(cf_coords) :
              cf_coords[p] \in Rectangle(cf_args.x_count, cf_args.y_count)

\* a negative shuffle_first on a 3 by 1 grid that moved the first cell
C5_Witness ==
    /\ cf_pc = "returned"
    /\ cf_args.x_count = 3
    /\ cf_args.y_count = 1
    /\ cf_args.shuffle_first = -1
    /\ cf_coords = <<<<0, 0>>, <<1, 0>>, <<2, 0>>>>

(***************************************************************************)
(* C6.  With shuffle_first = 0 the cells come sorted ascending by their    *)
(* key, cells of equal key in column-major order (x outer, y inner).       *)
(***************************************************************************)
\* c comes before d in the enumeration of itertools.product
ColumnMajorBefore(c, d) == c[1] < d[1] \/ (c[1] = d[1] /\ c[2] < d[2])

\* seq is sorted by key, ties in column-major order
SortedStably(seq, key(_)) ==
    \A p, q \in 1..Len(seq) :
        p < q =>
            \/ key(seq[p]) < key(seq[q])
            \/ key(seq[p]) = key(seq[q]) /\ ColumnMajorBefore(seq[p], seq[q])

\* |x - x_count/2| * y_bias + |y - y_count/2|, multiplied by 2 * den
KeyAsWritten(c) ==
    Abs(2 * c[1] - cf_args.x_count) * cf_args.y_bias[1]
    + Abs(2 * c[2] - cf_args.y_count) * cf_args.y_bias[2]

\* |x - floor(x_count/2)| * y_bias + |y - floor(y_count/2)|, multiplied by den
KeyFloored(c) ==
    Abs(c[1] - (cf_args.x_count \div 2)) * cf_args.y_bias[1]
    + Abs(c[2] - (cf_args.y_count \div 2)) * cf_args.y_bias[2]

TwoByTwo ==
    (cf_args.x_count = 2 /\ cf_args.y_count = 2 /\ cf_args.y_bias = <<1, 1>>)
    => cf_coords = <<<<1, 1>>, <<0, 1>>, <<1, 0>>, <<0, 0>>>>

\* C6 as claimed: the key is taken about the centre x_count/2, y_count/2
C6_AsClaimed ==
    (cf_pc = "returned" /\ cf_args.shuffle_first = 0) =>
        /\ SortedStably(cf_coords, KeyAsWritten)
        /\ TwoByTwo

\* C6 amended: the key is taken about floor(x_count/2), floor(y_count/2);
\* sorted ascending, ties column-major, and the 2 by 2 grid as claimed
C6_Amended ==
    (cf_pc = "returned" /\ cf_args.shuffle_first = 0) =>
        /\ SortedStably(cf_coords, KeyFloored)
        /\ TwoByTwo

\* an odd grid with a fractional y_bias, where ties occur
C6_Witness ==
    /\ cf_pc = "returned"
    /\ cf_args.shuffle_first = 0
    /\ cf_args.x_count = 3
    /\ cf_args.y_count = 3
    /\ cf_args.y_bias = <<5, 2>>
    /\ cf_coords[1] = <<1, 1>>
    /\ cf_coords[2] = <<1, 0>>
    /\ cf_coords[3] = <<1, 2>>

(***************************************************************************)
(* C7.  A Config with tile_width < 1 or tile_ratio <= 0 is rejected at     *)
(* construction: every Config that exists has tile_width >= 1,             *)
(* tile_ratio > 0 and tile_height >= 1.                                    *)
(***************************************************************************)
C7_ConfigRejected ==
    config.exists =>
        /\ config.tile_width >= 1
        /\ config.tile_ratio[1] > 0
        /\ tile_height(config) >= 1

(***************************************************************************)
(* C8.  A pool built from zero tile sources fails before any ranking and   *)
(* any assignment: create_mosaic never gets past the pool build, whatever  *)
(* the grid.                                                               *)
(***************************************************************************)
C8_EmptyPoolRejected ==
    args.tile_paths = 0 =>
        pc \in {"Config", "SourceResize", "SourceCrop", "MosaicImage",
                "TileBox", "Raised"}

(***************************************************************************)
(* C9.  With reuse disabled and a non-empty availability set, the step of  *)
(* a cell finds an index, the index is the earliest entry of the ranking   *)
(* still available, and the step removes exactly that index (exactly the   *)
(* four indices of its rotation group with rotation) and nothing else.     *)
(* The step is two statements of the loop, the search and the removal.     *)
(***************************************************************************)
C9_Step ==
    /\ (/\ pc = "Choose"
        /\ ~args.reuse
        /\ available # {}
        /\ error' # "KeyboardInterrupt")
       => LET m == matches[i + 1]
          IN  /\ pc' = "Remove"
              /\ error' = "none"
              /\ available' = available
              /\ \E p \in 1..Len(m) :
                    /\ m[p] = j'
                    /\ j' \in available
                    /\ \A q \in 1..(p - 1) : m[q] \notin available
    /\ (pc = "Remove" /\ error' # "KeyboardInterrupt")
       => LET removed == available \ available'
          IN  /\ pc' = "Paste"
              /\ error' = "none"
              /\ j' = j
              /\ j \in available
              /\ available' \subseteq available
              /\ IF config.rotate
                 THEN /\ Cardinality(removed) = 4
                      /\ \A t \in removed : GroupOf(t) = GroupOf(j)
                 ELSE removed = {j}

C9_FirstAvailableTaken == [][C9_Step]_vars

\* the scan passed over consumed entries and took a rotated variant
C9_Witness ==
    /\ pc = "Paste"
    /\ ~args.reuse
    /\ config.rotate
    /\ j # matches[i + 1][1]
    /\ j % 4 # 0
    /\ Cardinality(available) = PoolSize - 8

(***************************************************************************)
(* C10.  For shuffle_first >= 0 the shuffle only reorders the first        *)
(* shuffle_first entries: they are the same cells as before, and every     *)
(* later position holds the cell it held in the sorted sequence.           *)
(***************************************************************************)
C10_Step ==
    (cf_pc = "sorted" /\ cf_pc' = "returned" /\ cf_args.shuffle_first >= 0)
    => /\ Len(cf_coords') = Len(cf_coords)
       /\ \A p \in 1..Len(cf_coords) :
             p > cf_args.shuffle_first => cf_coords'[p] = cf_coords[p]
       /\ LET n == Min(cf_args.shuffle_first, Len(cf_coords))
          IN  \A c \in Rectangle(cf_args.x_count, cf_args.y_count) :
                 Occurrences(SubSeq(cf_coords', 1, n), c)
                    = Occurrences(SubSeq(cf_coords, 1, n), c)

C10_OnlyPrefixShuffled == [][C10_Step]_vars

\* a prefix of two of four cells, exchanged
C10_Witness ==
    /\ cf_pc = "returned"
    /\ cf_args.shuffle_first = 2
    /\ cf_args.x_count = 2
    /\ cf_args.y_count = 2
    /\ cf_args.y_bias = <<1, 1>>
    /\ cf_coords = <<<<0, 1>>, <<1, 1>>, <<1, 0>>, <<0, 0>>>>

====
